---- MODULE Spec2Model ----
(***************************************************************************)
(* Model of librustc_metadata/tyencode.rs: the type encoder enc_ty with    *)
(* its abbreviation cache (ctxt.abbrevs), the region encoder enc_region    *)
(* and the helpers enc_mt / enc_mutability.                                *)
(*                                                                         *)
(* Bytes are integers 0..255; text is written as its ASCII codes.          *)
(* A type expression is an interned node: structurally equal expressions   *)
(* are the same value, so the cache is keyed by the value itself.          *)
(***************************************************************************)
EXTENDS Integers, Sequences, FiniteSets, TLC

\* Number of top-level enc_ty calls explored in one session.
MaxCalls == 3

\* The output streams a caller may pass as `w`. Stream 1 is the session's own
\* stream; stream 2 exists only in the shared-cache specification.
Streams == {1, 2}

\* Cursor positions at which the session's first byte may be written: the
\* surrounding metadata emitter has already written that many bytes.
BasePositions == {0, 124, 127, 16383}

VARIABLES
    w,        \* w[s]: the bytes appended to stream s since the session began
    start,    \* start[s]: w.position() of stream s when the session began
    abbrevs,  \* cx.abbrevs: type expression -> ty_abbrev.s
    aborted,  \* TRUE once bug!() has fired: the session is dead
    log,      \* history: one record per enc_ty call (nested ones included)
    toks,     \* history: toks[s] = {[q, p]}: a back-reference to p sits at q
    atoks,    \* history: atoks[t] = {[off, p]}: back-references inside abbrevs[t]
    ncalls    \* number of top-level calls made

vars == <<w, start, abbrevs, aborted, log, toks, atoks, ncalls>>

----------------------------------------------------------------------------
(* Type expressions (ty::TypeVariants) and regions (ty::Region).           *)

NoRegion == "-"

Mk(k, ts, r, mutbl, sz, ity) ==
    [k |-> k, ts |-> ts, r |-> r, mutbl |-> mutbl, sz |-> sz, ity |-> ity]

TyBool == Mk("TyBool", <<>>, NoRegion, FALSE, 0, "-")
TyChar == Mk("TyChar", <<>>, NoRegion, FALSE, 0, "-")
TyNever == Mk("TyNever", <<>>, NoRegion, FALSE, 0, "-")
TyStr == Mk("TyStr", <<>>, NoRegion, FALSE, 0, "-")
TyError == Mk("TyError", <<>>, NoRegion, FALSE, 0, "-")
TyInfer == Mk("TyInfer", <<>>, NoRegion, FALSE, 0, "-")
TyInt(ity) == Mk("TyInt", <<>>, NoRegion, FALSE, 0, ity)
TyUint(ity) == Mk("TyUint", <<>>, NoRegion, FALSE, 0, ity)
TyFloat(ity) == Mk("TyFloat", <<>>, NoRegion, FALSE, 0, ity)
TyTuple(ts) == Mk("TyTuple", ts, NoRegion, FALSE, 0, "-")
TyBox(typ) == Mk("TyBox", <<typ>>, NoRegion, FALSE, 0, "-")
TyRawPtr(mutbl, ty) == Mk("TyRawPtr", <<ty>>, NoRegion, mutbl, 0, "-")
TyRef(r, mutbl, ty) == Mk("TyRef", <<ty>>, r, mutbl, 0, "-")
TyArray(t, sz) == Mk("TyArray", <<t>>, NoRegion, FALSE, sz, "-")
TySlice(t) == Mk("TySlice", <<t>>, NoRegion, FALSE, 0, "-")

----------------------------------------------------------------------------
(* Byte-level helpers.                                                     *)

\* rbml::leb128::write_unsigned_leb128: seven bits per byte, least
\* significant group first, bit 0x80 set on every byte but the last.
RECURSIVE write_unsigned_leb128(_)
write_unsigned_leb128(value) ==
    IF value \div 128 = 0
    THEN <<value % 128>>
    ELSE <<(value % 128) + 128>> \o write_unsigned_leb128(value \div 128)

\* The inverse, as the decoder reads it: value of the bytes from index i on.
RECURSIVE read_unsigned_leb128(_, _)
read_unsigned_leb128(bytes, i) ==
    IF i > Len(bytes) THEN 0
    ELSE IF bytes[i] < 128 THEN bytes[i]
    ELSE (bytes[i] - 128) + 128 * read_unsigned_leb128(bytes, i + 1)

\* `{}` formatting of an unsigned integer: its decimal digits.
RECURSIVE Decimal(_)
Decimal(n) ==
    IF n < 10 THEN <<48 + n>> ELSE Decimal(n \div 10) \o <<48 + (n % 10)>>

----------------------------------------------------------------------------
(* The encoder's working state, threaded through the recursion.            *)

Position(st, s) == start[s] + Len(st.w[s])

\* write!(w, ...) / w.write_all(..): nothing runs after a panic.
Write(st, s, bytes) ==
    IF st.ok THEN [st EXCEPT !.w[s] = @ \o bytes] ELSE st

\* A bug!(..) that reports the problem but lets the encoder carry on.
Bug_continue(st) == st

\* bug!(..): the call panics; control never returns to the callers.
Bug(st) == [st EXCEPT !.ok = FALSE]

\* enc_mutability with the two arms exchanged.
enc_mutability_swapped(st, s, mutbl) ==
    IF mutbl THEN st ELSE Write(st, s, <<109>>)

\* enc_mutability
enc_mutability(st, s, mutbl) ==
    IF mutbl THEN Write(st, s, <<109>>)     \* "m"
    ELSE st

\* enc_region (the variants without scope or bound-region payload)
enc_region(st, s, r) ==
    CASE r = "ReStatic" -> Write(st, s, <<116>>)    \* "t"
      [] r = "ReEmpty" -> Write(st, s, <<101>>)     \* "e"
      [] r = "ReErased" -> Write(st, s, <<69>>)     \* "E"
      [] r \in {"ReVar", "ReSkolemized"} -> IF st.ok THEN Bug(st) ELSE st

\* The two-letter width tags of TyInt / TyUint / TyFloat.
WidthTag(k, ity) ==
    CASE k = "TyInt" /\ ity = "Is" -> <<105, 115>>      \* "is"
      [] k = "TyInt" /\ ity = "I8" -> <<77, 66>>        \* "MB"
      [] k = "TyInt" /\ ity = "I16" -> <<77, 87>>       \* "MW"
      [] k = "TyInt" /\ ity = "I32" -> <<77, 76>>       \* "ML"
      [] k = "TyInt" /\ ity = "I64" -> <<77, 68>>       \* "MD"
      [] k = "TyUint" /\ ity = "Us" -> <<117, 115>>     \* "us"
      [] k = "TyUint" /\ ity = "U8" -> <<77, 98>>       \* "Mb"
      [] k = "TyUint" /\ ity = "U16" -> <<77, 119>>     \* "Mw"
      [] k = "TyUint" /\ ity = "U32" -> <<77, 108>>     \* "Ml"
      [] k = "TyUint" /\ ity = "U64" -> <<77, 100>>     \* "Md"
      [] k = "TyFloat" /\ ity = "F32" -> <<77, 102>>    \* "Mf"
      [] k = "TyFloat" /\ ity = "F64" -> <<77, 70>>     \* "MF"

\* A lookup that never finds the entry (keyed by address, not by identity).
CacheHit_never(cache, t) == FALSE

\* cx.abbrevs.borrow_mut().get(&t)
CacheHit(cache, t) == t \in DOMAIN cache

\* The candidate abbreviation naming the byte after the tag.
Abbrev_off(pos) == <<35>> \o write_unsigned_leb128(pos + 1)

\* The candidate abbreviation: "#" followed by the LEB128 encoding of pos.
Abbrev(pos) == <<35>> \o write_unsigned_leb128(pos)

\* The comparison written `<=`.
UseAbbrev_le(abbrevLen, len) == abbrevLen <= len

\* `abbrev.position() < len`: store the back-reference only if it is shorter.
UseAbbrev(abbrevLen, len) == abbrevLen < len

\* The verbatim slice taken one byte short.
Span_short(buf, lo, hi) == SubSeq(buf, lo + 1, hi - 1)

\* w.get_ref()[pos as usize .. end as usize], buf being the bytes from
\* position `base` on: lo and hi are offsets into buf, hi exclusive.
Span(buf, lo, hi) == SubSeq(buf, lo + 1, hi)

\* cx.abbrevs.borrow_mut().insert(t, ty_abbrev { s: .. })
CacheInsert(cache, t, s) ==
    [x \in DOMAIN cache \cup {t} |-> IF x = t THEN s ELSE cache[x]]

\* History record of one enc_ty call: the stream, the position at entry, the
\* bytes the call appended, whether it was served from the cache, whether it
\* returned (done) or panicked, and its nesting depth (0 = called by the user).
LogCall(st, s, t, q, hit, done, d) ==
    [st EXCEPT !.log = Append(@,
        [t |-> t, s |-> s, q |-> q, hit |-> hit, done |-> done, d |-> d,
         out |-> SubSeq(st.w[s], q - start[s] + 1, Len(st.w[s]))])]

RECURSIVE enc_ty(_, _, _, _)
RECURSIVE enc_tys(_, _, _, _, _)

\* `for t in ts { enc_ty(w, cx, *t); }`
enc_tys(st, s, ts, i, d) ==
    IF i > Len(ts) \/ ~st.ok THEN st
    ELSE enc_tys(enc_ty(st, s, ts[i], d), s, ts, i + 1, d)

\* enc_mt
enc_mt(st, s, mutbl, ty, d) == enc_ty(enc_mutability(st, s, mutbl), s, ty, d)

\* The `match t.sty` of enc_ty.
enc_sty(st, s, t, d) ==
    CASE t.k = "TyBool" -> Write(st, s, <<98>>)       \* "b"
      [] t.k = "TyChar" -> Write(st, s, <<99>>)       \* "c"
      [] t.k = "TyNever" -> Write(st, s, <<33>>)      \* "!"
      [] t.k \in {"TyInt", "TyUint", "TyFloat"} -> Write(st, s, WidthTag(t.k, t.ity))
      [] t.k = "TyTuple" ->
            Write(enc_tys(Write(st, s, <<84, 91>>), s, t.ts, 1, d + 1), s, <<93>>)
      [] t.k = "TyBox" -> enc_ty(Write(st, s, <<126>>), s, t.ts[1], d + 1)
      [] t.k = "TyRawPtr" -> enc_mt(Write(st, s, <<42>>), s, t.mutbl, t.ts[1], d + 1)
      [] t.k = "TyRef" ->
            enc_mt(enc_region(Write(st, s, <<38>>), s, t.r), s, t.mutbl, t.ts[1], d + 1)
      [] t.k = "TyArray" ->
            Write(enc_ty(Write(st, s, <<86>>), s, t.ts[1], d + 1), s,
                  <<47>> \o Decimal(t.sz) \o <<124>>)
      [] t.k = "TySlice" ->
            Write(enc_ty(Write(st, s, <<86>>), s, t.ts[1], d + 1), s, <<47, 124>>)
      [] t.k = "TyStr" -> Write(st, s, <<118>>)       \* "v"
      [] t.k = "TyInfer" -> Bug(st)
      [] t.k = "TyError" -> Write(st, s, <<101>>)     \* "e"

enc_ty(st, s, t, d) ==
    IF ~st.ok THEN st
    ELSE IF CacheHit(st.abbrevs, t)
    THEN LET q == Position(st, s)
             st1 == Write(st, s, st.abbrevs[t])
             st2 == [st1 EXCEPT !.toks[s] =
                        @ \cup {[q |-> q + e.off, p |-> e.p] : e \in st.atoks[t]}]
         IN  LogCall(st2, s, t, q, TRUE, TRUE, d)
    ELSE LET pos == Position(st, s)
             st1 == enc_sty(st, s, t, d)
             end == Position(st1, s)
             len == end - pos
             abbrev == Abbrev(pos)
             span == Span(st1.w[s], pos - start[s], end - start[s])
             short == UseAbbrev(Len(abbrev), len)
             entry == IF short THEN abbrev ELSE span
             inner == IF short THEN {[off |-> 0, p |-> pos]}
                      ELSE {[off |-> k.q - pos, p |-> k.p] :
                               k \in {x \in st1.toks[s] : x.q >= pos /\ x.q < end}}
             st2 == [st1 EXCEPT
                        !.abbrevs = CacheInsert(@, t, entry),
                        !.atoks = CacheInsert(@, t, inner)]
         IN  IF st1.ok
             THEN LogCall(st2, s, t, pos, FALSE, TRUE, d)
             ELSE LogCall(st1, s, t, pos, FALSE, FALSE, d)

----------------------------------------------------------------------------
(* The inputs: the type expressions a caller passes to enc_ty.             *)

tBC == TyTuple(<<TyBool, TyChar>>)
tUnit == TyTuple(<<>>)

TypeUniverse ==
    { TyBool, TyChar, TyInt("I8"), tUnit, tBC,
      TyTuple(<<tBC, tBC>>),
      TyArray(TyBool, 4), TyArray(tBC, 12),
      TyRef("ReStatic", FALSE, TyBool), TyRef("ReErased", TRUE, tBC),
      TyBox(tBC), TySlice(TyChar),
      TyInfer, TyTuple(<<TyBool, TyInfer>>),
      TyRef("ReVar", FALSE, TyBool), TyBox(TyRef("ReSkolemized", TRUE, TyChar)) }

SharedTypes == { TyBool, tBC, TyTuple(<<tBC, tBC>>), TyBox(tBC) }

----------------------------------------------------------------------------
(* State machine.                                                          *)

Empty == [x \in {} |-> <<>>]

Init ==
    /\ start \in {f \in [Streams -> BasePositions] : f[2] = 0}
    /\ w = [s \in Streams |-> <<>>]
    /\ abbrevs = Empty
    /\ aborted = FALSE
    /\ log = <<>>
    /\ toks = [s \in Streams |-> {}]
    /\ atoks = Empty
    /\ ncalls = 0

\* One call enc_ty(w, cx, t) by the surrounding metadata emitter, on stream s.
EncTy(s, t) ==
    /\ ~aborted
    /\ ncalls < MaxCalls
    /\ LET st == [w |-> w, abbrevs |-> abbrevs, ok |-> TRUE, log |-> log,
                  toks |-> toks, atoks |-> atoks]
           r == enc_ty(st, s, t, 0)
       IN  /\ w' = r.w
           /\ abbrevs' = r.abbrevs
           /\ aborted' = ~r.ok
           /\ log' = r.log
           /\ toks' = r.toks
           /\ atoks' = r.atoks
    /\ ncalls' = ncalls + 1
    /\ UNCHANGED start

\* One session, one cache, one stream.
Next == \E t \in TypeUniverse : EncTy(1, t)

Spec == Init /\ [][Next]_vars

\* One cache handed to calls on two different streams.
NextShared == \E s \in Streams, t \in SharedTypes : EncTy(s, t)

SpecShared == Init /\ [][NextShared]_vars

----------------------------------------------------------------------------
(* Vocabulary of the properties.                                           *)

Calls == DOMAIN log

\* A call that derived its type and inserted the cache entry.
IsMiss(e) == e.done /\ ~e.hit

\* The back-reference token for position p: "#" and the minimal encoding of p.
BackRef(p) == <<35>> \o write_unsigned_leb128(p)

\* bytes is one well-formed back-reference token.
IsBackRef(bytes) ==
    /\ Len(bytes) >= 2
    /\ bytes[1] = 35
    /\ bytes[Len(bytes)] < 128
    /\ \A i \in 2..(Len(bytes) - 1) : bytes[i] >= 128

\* Stream s holds exactly `bytes` from absolute position p on.
Holds(s, p, bytes) ==
    /\ p >= start[s]
    /\ p - start[s] + Len(bytes) <= Len(w[s])
    /\ SubSeq(w[s], p - start[s] + 1, p - start[s] + Len(bytes)) = bytes

\* The characters that open a type's own encoding: b c ! i M u T ~ * & V v e.
VariantTags == {98, 99, 33, 105, 77, 117, 84, 126, 42, 38, 86, 118, 101}

IllegalRegions == {"ReVar", "ReSkolemized"}

RECURSIVE ContainsIllegal(_)
ContainsIllegal(t) ==
    \/ t.k = "TyInfer"
    \/ t.r \in IllegalRegions
    \/ \E i \in DOMAIN t.ts : ContainsIllegal(t.ts[i])

RECURSIVE Concat(_)
Concat(seqs) == IF seqs = <<>> THEN <<>> ELSE Head(seqs) \o Concat(Tail(seqs))

----------------------------------------------------------------------------
(* C1  Determinism.                                                        *)

\* C1 as stated: any two completed enc_ty calls on the same type expression
\* in one session and stream append identical byte sequences.
C1_SameBytesTwice ==
    \A i, j \in Calls :
        (i < j /\ log[i].t = log[j].t /\ log[i].done /\ log[j].done)
            => log[i].out = log[j].out

\* C1 amended: of two calls on the same type the later one is served from the
\* cache and appends the cache entry; it repeats the earlier call's bytes when
\* the earlier call was itself a hit, and, when the earlier call derived the
\* type, exactly when the back-reference token is not shorter than the span.
C1_SecondFromCache ==
    \A i, j \in Calls :
        (i < j /\ log[i].t = log[j].t /\ log[i].done)
            => /\ log[j].done /\ log[j].hit
               /\ log[j].t \in DOMAIN abbrevs
               /\ log[j].out = abbrevs[log[j].t]
               /\ log[i].hit => log[i].out = log[j].out
               /\ ~log[i].hit =>
                    ((log[i].out = log[j].out)
                        <=> Len(BackRef(log[i].q)) >= Len(log[i].out))

\* A type derived and abbreviated then replayed as a token, beside a type
\* replayed verbatim.
C1_Witness ==
    /\ \E i, j \in Calls :
          /\ i < j /\ log[i].t = log[j].t /\ IsMiss(log[i]) /\ log[j].hit
          /\ log[i].out # log[j].out
    /\ \E i, j \in Calls :
          /\ i < j /\ log[i].t = log[j].t /\ IsMiss(log[i]) /\ log[j].hit
          /\ log[i].out = log[j].out

----------------------------------------------------------------------------
(* C2  Grammar safety of abbreviations.                                    *)

\* C2: no cache entry that is a back-reference token contains the
\* field-separator byte '|' (124).
C2_NoPipeInToken ==
    \A t \in DOMAIN abbrevs :
        IsBackRef(abbrevs[t]) => \A i \in DOMAIN abbrevs[t] : abbrevs[t][i] # 124

----------------------------------------------------------------------------
(* C3  Abbreviation bound.                                                 *)

\* C3: if the first call on t wrote N bytes at position P, every later call on
\* t appends at most N bytes: either those N bytes, or a back-reference token
\* that decodes to P while the stream still holds the N bytes at P.
C3_AbbreviationBound ==
    \A i, j \in Calls :
        (i < j /\ log[i].t = log[j].t /\ IsMiss(log[i]))
            => /\ log[j].done
               /\ Len(log[j].out) <= Len(log[i].out)
               /\ \/ log[j].out = log[i].out
                  \/ /\ IsBackRef(log[j].out)
                     /\ read_unsigned_leb128(log[j].out, 2) = log[i].q
                     /\ Holds(log[i].s, log[i].q, log[i].out)

\* Both outcomes in one session: a later call that wrote a token resolving to
\* the original bytes, and a later call that wrote the original bytes again.
C3_Witness ==
    /\ \E i, j \in Calls :
          /\ i < j /\ log[i].t = log[j].t /\ IsMiss(log[i])
          /\ IsBackRef(log[j].out) /\ Len(log[j].out) < Len(log[i].out)
          /\ Holds(1, read_unsigned_leb128(log[j].out, 2), log[i].out)
    /\ \E i, j \in Calls :
          /\ i < j /\ log[i].t = log[j].t /\ IsMiss(log[i])
          /\ log[j].out = log[i].out /\ Len(log[i].out) = 3

----------------------------------------------------------------------------
(* C4  Illegal input.                                                      *)

\* C4 as stated: a call on an expression containing TyInfer, ReVar or
\* ReSkolemized aborts, and the stream then holds no byte appended by it.
C4_AbortWithoutOutput ==
    \A i \in Calls :
        ContainsIllegal(log[i].t) => (~log[i].done /\ log[i].out = <<>>)

\* C4 amended: such a call always aborts and the session is dead; the stream
\* holds no byte of the call only when the expression is itself TyInfer, and
\* otherwise keeps what the call wrote before reaching the illegal node,
\* starting with the expression's own tag.
C4_AbortKeepsPrefix ==
    \A i \in Calls :
        ContainsIllegal(log[i].t)
            => /\ ~log[i].done
               /\ aborted
               /\ log[i].t \notin DOMAIN abbrevs
               /\ (log[i].out = <<>>) <=> (log[i].t.k = "TyInfer")
               /\ log[i].t.k # "TyInfer" =>
                    /\ log[i].out[1] \in VariantTags
                    /\ Holds(log[i].s, log[i].q, log[i].out)
                    /\ start[log[i].s] + Len(w[log[i].s]) = log[i].q + Len(log[i].out)

\* An aborted session in which an enclosing call left bytes behind and the
\* innermost call, on the placeholder itself, left none.
C4_Witness ==
    /\ aborted
    /\ \E i, j \in Calls :
          /\ log[i].t.k = "TyInfer" /\ log[i].d >= 1 /\ log[i].out = <<>>
          /\ log[j].d = 0 /\ ~log[j].done /\ Len(log[j].out) >= 3
    /\ Len(w[1]) > 3

----------------------------------------------------------------------------
(* C5  Abbreviation-choice law.                                            *)

\* C5: every cache entry is either the back-reference token of the position
\* at which its type was first encoded, the token being strictly shorter than
\* that span, or the span's bytes, the token being at least as long.
C5_ChoiceLaw ==
    \A t \in DOMAIN abbrevs :
        /\ Cardinality({i \in Calls : log[i].t = t /\ IsMiss(log[i])}) = 1
        /\ \A i \in Calls :
              (log[i].t = t /\ IsMiss(log[i]))
                  => \/ /\ abbrevs[t] = BackRef(log[i].q)
                        /\ Len(BackRef(log[i].q)) < Len(log[i].out)
                     \/ /\ abbrevs[t] = log[i].out
                        /\ Len(BackRef(log[i].q)) >= Len(log[i].out)

\* A cache holding a token, and a verbatim span exactly as long as its token.
C5_Witness ==
    /\ \E t \in DOMAIN abbrevs : IsBackRef(abbrevs[t])
    /\ \E i \in Calls :
          /\ IsMiss(log[i])
          /\ Len(BackRef(log[i].q)) = Len(log[i].out)
          /\ abbrevs[log[i].t] = log[i].out

----------------------------------------------------------------------------
(* C6  Abbreviation scenario.                                              *)

\* C6: once a type was encoded at P with a span longer than the token for P,
\* every later enc_ty call on it, nested or not, appends exactly that token.
C6_LaterOccurrencesAbbreviated ==
    \A i, j \in Calls :
        ( /\ i < j /\ log[i].t = log[j].t /\ IsMiss(log[i])
          /\ Len(log[i].out) > Len(BackRef(log[i].q)) )
            => /\ log[j].hit
               /\ log[j].out = BackRef(log[i].q)

\* Type A = (bool, char) encoded at position 0 with span 5, then the tuple
\* (A, A): both nested occurrences wrote "#\0" and the tuple is "T[#\0#\0]".
C6_Witness ==
    \E i, j, k, m \in Calls :
        /\ i < j /\ j < k /\ k < m
        /\ log[i].t = tBC /\ IsMiss(log[i]) /\ log[i].q = 0 /\ Len(log[i].out) = 5
        /\ log[j].t = tBC /\ log[j].d = 1 /\ log[j].out = <<35, 0>>
        /\ log[k].t = tBC /\ log[k].d = 1 /\ log[k].out = <<35, 0>>
        /\ log[m].t = TyTuple(<<tBC, tBC>>) /\ IsMiss(log[m])
        /\ log[m].out = <<84, 91, 35, 0, 35, 0, 93>>

----------------------------------------------------------------------------
(* C7  Variant grammar on a fresh session.                                 *)

\* The calls made directly by the session's top-level call.
Kids == SelectSeq(log, LAMBDA e : e.d = 1)

KidsOut == Concat([i \in DOMAIN Kids |-> Kids[i].out])

KidsTypes == [i \in DOMAIN Kids |-> Kids[i].t]

\* The decimal text of the array lengths used.
DecimalText(n) ==
    CASE n = 4 -> <<52>>
      [] n = 12 -> <<49, 50>>

----------------------------------------------------------------------------
(* C8  Write-once cache.                                                   *)

InsertCount(t) == Cardinality({i \in Calls : log[i].t = t /\ IsMiss(log[i])})

\* C8: a step never overwrites or removes an entry, inserts at most once per
\* type identity (nested calls included), and a call that hits the cache
\* leaves the cache unchanged.
C8_WriteOnce ==
    [][ /\ \A t \in DOMAIN abbrevs : t \in DOMAIN abbrevs' /\ abbrevs'[t] = abbrevs[t]
        /\ \A t \in DOMAIN abbrevs' : InsertCount(t)' = 1
        /\ (Len(log') > Len(log) /\ log'[Len(log')].t \in DOMAIN abbrevs)
              => /\ log'[Len(log')].hit
                 /\ Len(log') = Len(log) + 1
                 /\ abbrevs' = abbrevs
      ]_vars

\* A session in which a nested call inserted an entry that a later top-level
\* call then hit, and a later derivation hit nested entries.
C8_Witness ==
    /\ \E i, j \in Calls :
          /\ i < j /\ log[i].t = log[j].t
          /\ IsMiss(log[i]) /\ log[i].d >= 1
          /\ log[j].hit /\ log[j].d = 0
    /\ \E i, j \in Calls :
          /\ i < j /\ log[i].t = log[j].t
          /\ IsMiss(log[i]) /\ log[j].hit /\ log[j].d >= 1
    /\ Cardinality(DOMAIN abbrevs) >= 4

----------------------------------------------------------------------------
(* C9  One cache shared by two streams.                                    *)

\* C9: a call on a stream other than the one a type was first encoded on is
\* still served from the shared cache: it completes, without abort, and
\* appends the entry as stored, whatever the stream it is written to holds.
C9_SharedCacheServesAnyStream ==
    \A i, j \in Calls :
        (i < j /\ log[i].t = log[j].t /\ IsMiss(log[i]) /\ log[i].s # log[j].s)
            => /\ log[j].done /\ log[j].hit
               /\ log[j].out = abbrevs[log[j].t]
               /\ Len(log[i].out) > Len(BackRef(log[i].q))
                    => log[j].out = BackRef(log[i].q)

\* The corrupt state: a completed call on stream 2 appended a back-reference
\* whose position, in stream 2, does not hold the type's encoding.
C9_Witness ==
    /\ ~aborted
    /\ \E i, j \in Calls :
          /\ i < j /\ log[i].t = log[j].t /\ IsMiss(log[i])
          /\ log[i].s = 1 /\ log[j].s = 2 /\ log[j].done
          /\ IsBackRef(log[j].out)
          /\ read_unsigned_leb128(log[j].out, 2) >= start[2]
          /\ ~Holds(2, read_unsigned_leb128(log[j].out, 2), log[i].out)

----------------------------------------------------------------------------
(* C10  Back-references are well founded.                                  *)

\* The byte of stream s at absolute position p is a variant tag other than '#'.
TagAt(s, p) ==
    /\ p >= start[s]
    /\ p - start[s] < Len(w[s])
    /\ w[s][p - start[s] + 1] \in VariantTags \ {35}

\* C10: every back-reference in the stream (at offset q) and in the cache
\* names a position p before it at which a type was derived, so that a tag
\* other than '#' begins there.
C10_WellFounded ==
    /\ \A i \in Calls :
          (log[i].hit /\ IsBackRef(log[i].out))
              => [q |-> log[i].q, p |-> read_unsigned_leb128(log[i].out, 2)] \in toks[log[i].s]
    /\ \A k \in toks[1] :
          /\ k.p < k.q
          /\ Holds(1, k.q, BackRef(k.p))
          /\ TagAt(1, k.p)
          /\ \E i \in Calls : IsMiss(log[i]) /\ log[i].q = k.p
    /\ \A t \in DOMAIN abbrevs :
          /\ IsBackRef(abbrevs[t]) =>
                /\ atoks[t] = {[off |-> 0, p |-> read_unsigned_leb128(abbrevs[t], 2)]}
                /\ TagAt(1, read_unsigned_leb128(abbrevs[t], 2))
          /\ \A e \in atoks[t] :
                /\ e.p < start[1] + Len(w[1])
                /\ TagAt(1, e.p)
                /\ e.off + Len(BackRef(e.p)) <= Len(abbrevs[t])
                /\ SubSeq(abbrevs[t], e.off + 1, e.off + Len(BackRef(e.p))) = BackRef(e.p)

\* Back-references at two levels: a verbatim cache entry that carries a
\* back-reference inside it, replayed into the stream.
C10_Witness ==
    /\ \E t \in DOMAIN abbrevs :
          /\ ~IsBackRef(abbrevs[t])
          /\ \E e \in atoks[t] : e.off >= 1
          /\ \E i \in Calls : log[i].t = t /\ log[i].hit
    /\ Cardinality(toks[1]) >= 2

====
